---- MODULE Spec2Model ----
(***************************************************************************)
(* A model of the corim-rs codec core: the TriplesMapBuilder of comid.rs,  *)
(* the construction paths of TriplesMap, the tagged wrappers produced by   *)
(* generate_tagged!, the type-choice enums of comid.rs and corim.rs, the   *)
(* FixedBytes buffer of fixed_bytes.rs, and the encoding and the           *)
(* add_*_raw_value methods of ConciseMidTag.                               *)
(***************************************************************************)
EXTENDS Integers, Sequences, FiniteSets, TLC

\* ------------------------------------------------------------------ bounds

\* Distinct values a setter (or a struct literal) may be given for one slot.
MaxPayload == 2
\* Setter calls made on one builder before build().
MaxSetterCalls == 3
\* Slots a struct literal (or a builder handed to build()) populates.
MaxLiteralSlots == 2

Payloads == 1..MaxPayload

\* ------------------------------------------------------------ Option<T>

\* Option<T>: None is the empty sequence, Some(v) the one-element sequence.
None == <<>>

Some(v) == <<v>>

is_none(o) == o = None

\* -------------------------------------------------------- crate::Result

Ok(v) == [tag |-> "Ok", value |-> v]

Err(e) == [tag |-> "Err", err |-> e]

\* ------------------------------------------------------------ TriplesMap

\* The ten fields of TriplesMap / TriplesMapBuilder, in declaration order.
SlotNames ==
    << "reference_triples", "endorsed_triples", "identity_triples",
       "attest_key_triples", "dependency_triples", "membership_triples",
       "coswid_triples", "conditional_endorsement_series_triples",
       "conditional_endorsement_triples", "extension" >>

Slots == { SlotNames[i] : i \in DOMAIN SlotNames }

\* #[derive(Default)] on TriplesMap: every Option field is None.
TriplesMap_default ==
    [ reference_triples |-> None,
      endorsed_triples |-> None,
      identity_triples |-> None,
      attest_key_triples |-> None,
      dependency_triples |-> None,
      membership_triples |-> None,
      coswid_triples |-> None,
      conditional_endorsement_series_triples |-> None,
      conditional_endorsement_triples |-> None,
      extension |-> None ]

\* #[derive(Default)] on TriplesMapBuilder: every Option field is None.
TriplesMapBuilder_default ==
    [ reference_triples |-> None,
      endorsed_triples |-> None,
      identity_triples |-> None,
      attest_key_triples |-> None,
      dependency_triples |-> None,
      membership_triples |-> None,
      coswid_triples |-> None,
      conditional_endorsement_series_triples |-> None,
      conditional_endorsement_triples |-> None,
      extension |-> None ]

\* ------------------------------------------------- TriplesMapBuilder setters

reference_triples(self, value) ==
    [self EXCEPT !.reference_triples = Some(value)]

endorsed_triples(self, value) ==
    [self EXCEPT !.endorsed_triples = Some(value)]

\* A setter that keeps the value its slot already holds.
identity_triples_keeping_first(self, value) ==
    IF is_none(self.identity_triples)
    THEN [self EXCEPT !.identity_triples = Some(value)]
    ELSE self

identity_triples(self, value) ==
    [self EXCEPT !.identity_triples = Some(value)]

attest_key_triples(self, value) ==
    [self EXCEPT !.attest_key_triples = Some(value)]

dependency_triples(self, value) ==
    [self EXCEPT !.dependency_triples = Some(value)]

membership_triples(self, value) ==
    [self EXCEPT !.membership_triples = Some(value)]

coswid_triples(self, value) ==
    [self EXCEPT !.coswid_triples = Some(value)]

conditional_endorsement_series_triples(self, value) ==
    [self EXCEPT !.conditional_endorsement_series_triples = Some(value)]

conditional_endorsement_triples(self, value) ==
    [self EXCEPT !.conditional_endorsement_triples = Some(value)]

extension(self, value) ==
    [self EXCEPT !.extension = Some(value)]

\* --------------------------------------------------- TriplesMapBuilder::build

\* A build() whose emptiness test forgets the extension slot.
build_forgets_extension(self) ==
    IF /\ is_none(self.reference_triples)
       /\ is_none(self.endorsed_triples)
       /\ is_none(self.identity_triples)
       /\ is_none(self.attest_key_triples)
       /\ is_none(self.dependency_triples)
       /\ is_none(self.membership_triples)
       /\ is_none(self.coswid_triples)
       /\ is_none(self.conditional_endorsement_series_triples)
       /\ is_none(self.conditional_endorsement_triples)
    THEN Err("EmptyTriplesMap")
    ELSE Ok(self)

\* A build() that moves reference_triples and endorsed_triples crosswise.
build_crosses_slots(self) ==
    IF \A f \in Slots : is_none(self[f])
    THEN Err("EmptyTriplesMap")
    ELSE Ok([self EXCEPT !.reference_triples = self.endorsed_triples,
                         !.endorsed_triples = self.reference_triples])

\* A build() without the emptiness test.
build_unchecked(self) == Ok(self)

build(self) ==
    IF /\ is_none(self.reference_triples)
       /\ is_none(self.endorsed_triples)
       /\ is_none(self.identity_triples)
       /\ is_none(self.attest_key_triples)
       /\ is_none(self.dependency_triples)
       /\ is_none(self.membership_triples)
       /\ is_none(self.coswid_triples)
       /\ is_none(self.conditional_endorsement_series_triples)
       /\ is_none(self.conditional_endorsement_triples)
       /\ is_none(self.extension)
    THEN Err("EmptyTriplesMap")
    ELSE Ok([ reference_triples |-> self.reference_triples,
              endorsed_triples |-> self.endorsed_triples,
              identity_triples |-> self.identity_triples,
              attest_key_triples |-> self.attest_key_triples,
              dependency_triples |-> self.dependency_triples,
              membership_triples |-> self.membership_triples,
              coswid_triples |-> self.coswid_triples,
              conditional_endorsement_series_triples |->
                  self.conditional_endorsement_series_triples,
              conditional_endorsement_triples |->
                  self.conditional_endorsement_triples,
              extension |-> self.extension ])

\* ------------------------------------------------------------------ state

VARIABLES
    builder,          \* the TriplesMapBuilder value (its ten Option slots)
    builder_state,    \* "Accumulating" while the builder is owned, "Built" once build(self) consumed it
    build_result,     \* what build() returned, NoResult before
    setter_calls,     \* number of setter calls made on the builder
    last_passed,      \* per slot, the value last passed to its setter (None: never called)
    last_op,          \* the operation taken last on the builder
    observed,         \* a TriplesMap value a client holds, with the path that made it
    wrapper,          \* a generate_tagged! wrapper value: its type and its field.0
    wire,             \* the item the wrapper was last serialized to, with the wrapper serialized
    decoded,          \* the last deserialization of a wrapper: type, input item, result
    choice_wire,      \* the item a type-choice value was last serialized to, with the value
    choice_decoded,   \* the last deserialization of a type choice: type, candidate order, input, result
    fixed,            \* a FixedBytes<N> value a client holds: N and the array
    fixed_out,        \* what the FixedBytes value last handed out (Serialize, Deref, AsRef), with the value
    fixed_decoded,    \* the last deserialization of a FixedBytes<N>: N, input item, result
    comid_wire,       \* the items a ConciseMidTag was last serialized to, with the tag
    comid,            \* a ConciseMidTag a client holds and mutates
    comid_start,      \* that ConciseMidTag as it was constructed
    comid_log,        \* the successful add_*_raw_value calls made on it, in order
    comid_last,       \* the last add_*_raw_value call: operation, arguments, result
    comid_calls       \* number of add_*_raw_value calls made on it

builder_vars == << builder, builder_state, build_result, setter_calls, last_passed, last_op >>

construct_vars == << observed >>

tagged_vars == << wrapper, wire, decoded >>

choice_vars == << choice_wire, choice_decoded >>

fixed_vars == << fixed, fixed_out, fixed_decoded >>

comid_vars == << comid_wire, comid, comid_start, comid_log, comid_last, comid_calls >>

codec_vars == << tagged_vars, choice_vars, fixed_vars, comid_vars >>

vars ==
    << builder, builder_state, build_result, setter_calls, last_passed, last_op, observed,
       wrapper, wire, decoded, choice_wire, choice_decoded,
       fixed, fixed_out, fixed_decoded,
       comid_wire, comid, comid_start, comid_log, comid_last, comid_calls >>

NoResult == [tag |-> "NoResult"]

NoValue == [origin |-> "none"]

NoWrapper == [title |-> "none"]

NoWire == [title |-> "none"]

NoDecode == [title |-> "none"]

NoBuffer == [N |-> "none"]

NoView == [via |-> "none"]

NoTag == [title |-> "none"]

NoCall == [op |-> "none"]

InitBuilder ==
    /\ builder = TriplesMapBuilder_default
    /\ builder_state = "Accumulating"
    /\ build_result = NoResult
    /\ setter_calls = 0
    /\ last_passed = [f \in Slots |-> None]
    /\ last_op = "default"

InitConstruct ==
    /\ observed = NoValue

InitTagged ==
    /\ wrapper = NoWrapper
    /\ wire = NoWire
    /\ decoded = NoDecode

InitChoice ==
    /\ choice_wire = NoWire
    /\ choice_decoded = NoDecode

InitFixed ==
    /\ fixed = NoBuffer
    /\ fixed_out = NoView
    /\ fixed_decoded = NoDecode

InitComid ==
    /\ comid_wire = NoWire
    /\ comid = NoTag
    /\ comid_start = NoTag
    /\ comid_log = << >>
    /\ comid_last = NoCall
    /\ comid_calls = 0

Init ==
    /\ InitBuilder
    /\ InitConstruct
    /\ InitTagged
    /\ InitChoice
    /\ InitFixed
    /\ InitComid

\* ------------------------------------------------- builder: the operations

\* A setter takes `mut self`: it needs an owned, not yet consumed builder,
\* and hands the builder back (the state stays Accumulating).
SetterStep(name, next) ==
    /\ builder_state = "Accumulating"
    /\ setter_calls < MaxSetterCalls
    /\ builder' = next
    /\ setter_calls' = setter_calls + 1
    /\ last_op' = name
    /\ UNCHANGED << builder_state, build_result, construct_vars, codec_vars >>

Set_reference_triples ==
    \E value \in Payloads :
        /\ SetterStep("reference_triples", reference_triples(builder, value))
        /\ last_passed' = [last_passed EXCEPT !["reference_triples"] = Some(value)]

Set_endorsed_triples ==
    \E value \in Payloads :
        /\ SetterStep("endorsed_triples", endorsed_triples(builder, value))
        /\ last_passed' = [last_passed EXCEPT !["endorsed_triples"] = Some(value)]

Set_identity_triples ==
    \E value \in Payloads :
        /\ SetterStep("identity_triples", identity_triples(builder, value))
        /\ last_passed' = [last_passed EXCEPT !["identity_triples"] = Some(value)]

Set_attest_key_triples ==
    \E value \in Payloads :
        /\ SetterStep("attest_key_triples", attest_key_triples(builder, value))
        /\ last_passed' = [last_passed EXCEPT !["attest_key_triples"] = Some(value)]

Set_dependency_triples ==
    \E value \in Payloads :
        /\ SetterStep("dependency_triples", dependency_triples(builder, value))
        /\ last_passed' = [last_passed EXCEPT !["dependency_triples"] = Some(value)]

Set_membership_triples ==
    \E value \in Payloads :
        /\ SetterStep("membership_triples", membership_triples(builder, value))
        /\ last_passed' = [last_passed EXCEPT !["membership_triples"] = Some(value)]

Set_coswid_triples ==
    \E value \in Payloads :
        /\ SetterStep("coswid_triples", coswid_triples(builder, value))
        /\ last_passed' = [last_passed EXCEPT !["coswid_triples"] = Some(value)]

Set_conditional_endorsement_series_triples ==
    \E value \in Payloads :
        /\ SetterStep("conditional_endorsement_series_triples",
                      conditional_endorsement_series_triples(builder, value))
        /\ last_passed' =
               [last_passed EXCEPT !["conditional_endorsement_series_triples"] = Some(value)]

Set_conditional_endorsement_triples ==
    \E value \in Payloads :
        /\ SetterStep("conditional_endorsement_triples",
                      conditional_endorsement_triples(builder, value))
        /\ last_passed' =
               [last_passed EXCEPT !["conditional_endorsement_triples"] = Some(value)]

Set_extension ==
    \E value \in Payloads :
        /\ SetterStep("extension", extension(builder, value))
        /\ last_passed' = [last_passed EXCEPT !["extension"] = Some(value)]

\* A build(&self) that leaves the builder usable.
Build_by_reference ==
    /\ builder_state = "Accumulating"
    /\ build_result' = build(builder)
    /\ last_op' = "build"
    /\ UNCHANGED << builder, builder_state, setter_calls, last_passed, construct_vars, codec_vars >>

\* build(self) consumes the builder: whatever it returns, the builder is gone.
Build ==
    /\ builder_state = "Accumulating"
    /\ build_result' = build(builder)
    /\ builder_state' = "Built"
    /\ last_op' = "build"
    /\ UNCHANGED << builder, setter_calls, last_passed, construct_vars, codec_vars >>

NextBuilder ==
    \/ Set_reference_triples
    \/ Set_endorsed_triples
    \/ Set_identity_triples
    \/ Set_attest_key_triples
    \/ Set_dependency_triples
    \/ Set_membership_triples
    \/ Set_coswid_triples
    \/ Set_conditional_endorsement_series_triples
    \/ Set_conditional_endorsement_triples
    \/ Set_extension
    \/ Build

SpecBuilder == Init /\ [][NextBuilder]_vars

\* ----------------------------------------------------- builder: the claims

\* C1: build() returns the EmptyTriplesMap error exactly when no setter was
\* ever called on the builder; after at least one setter call (whichever
\* slot, the extension included) build() returns Ok.
BuildFailsIffNeverSet ==
    builder_state = "Built" =>
        /\ (build_result = Err("EmptyTriplesMap")) <=> (setter_calls = 0)
        /\ (setter_calls > 0) => (build_result.tag = "Ok")

\* C1 witness: build() was taken after extension() alone and succeeded.
BuiltWithExtensionOnly ==
    /\ builder_state = "Built"
    /\ setter_calls = 1
    /\ last_passed["extension"] # None
    /\ build_result.tag = "Ok"

\* C2: when build() succeeds, every field of the returned TriplesMap equals
\* the builder's slot of the same name, which is None if its setter was never
\* called and otherwise Some of the value last passed to that setter.
BuildMovesEverySlot ==
    (builder_state = "Built" /\ build_result.tag = "Ok") =>
        \A f \in Slots :
            /\ build_result.value[f] = builder[f]
            /\ build_result.value[f] = last_passed[f]

\* C2 witness: a successful build() of a builder whose first two slots hold
\* different values and whose third slot was never set.
BuiltWithDistinctSlots ==
    /\ builder_state = "Built"
    /\ build_result.tag = "Ok"
    /\ last_passed["reference_triples"] = Some(1)
    /\ last_passed["endorsed_triples"] = Some(2)
    /\ last_passed["identity_triples"] = None

\* C3: the builder is in one of two states; a setter step starts and ends in
\* Accumulating; the state changes only by build(), from Accumulating to
\* Built; and once build() was taken no setter or build() step follows.
BuilderIsTwoState ==
    /\ [](builder_state \in {"Accumulating", "Built"})
    /\ [][ /\ (last_op = "build" \/ builder_state = "Built") => UNCHANGED builder_vars
           /\ (setter_calls' # setter_calls) =>
                  (builder_state = "Accumulating" /\ builder_state' = "Accumulating")
           /\ (last_op' = "build" /\ last_op # "build") =>
                  (builder_state = "Accumulating" /\ builder_state' = "Built")
           /\ (builder_state' # builder_state) => (last_op' = "build") ]_vars

\* C3 witness: build() was taken after two setter calls.
BuiltAfterSetters ==
    /\ builder_state = "Built"
    /\ last_op = "build"
    /\ setter_calls = 2

\* ------------------------------------------- TriplesMap: construction paths

AllUnset(r) == \A f \in Slots : is_none(r[f])

\* The TriplesMap (or builder content) whose slots in S hold Some(p).
TriplesMapWith(S, p) ==
    [ reference_triples |-> IF "reference_triples" \in S THEN Some(p) ELSE None,
      endorsed_triples |-> IF "endorsed_triples" \in S THEN Some(p) ELSE None,
      identity_triples |-> IF "identity_triples" \in S THEN Some(p) ELSE None,
      attest_key_triples |-> IF "attest_key_triples" \in S THEN Some(p) ELSE None,
      dependency_triples |-> IF "dependency_triples" \in S THEN Some(p) ELSE None,
      membership_triples |-> IF "membership_triples" \in S THEN Some(p) ELSE None,
      coswid_triples |-> IF "coswid_triples" \in S THEN Some(p) ELSE None,
      conditional_endorsement_series_triples |->
          IF "conditional_endorsement_series_triples" \in S THEN Some(p) ELSE None,
      conditional_endorsement_triples |->
          IF "conditional_endorsement_triples" \in S THEN Some(p) ELSE None,
      extension |-> IF "extension" \in S THEN Some(p) ELSE None ]

\* The field values a struct literal is written with, and the slot contents
\* a builder can have accumulated when build() is called.
TriplesMapInputs ==
    { TriplesMapWith(S, p) :
        S \in { T \in SUBSET Slots : Cardinality(T) <= MaxLiteralSlots },
        p \in Payloads }

\* TriplesMap::default() (derived): infallible.
Construct_default ==
    /\ observed' = [ origin |-> "Default",
                     input |-> TriplesMap_default,
                     result |-> Ok(TriplesMap_default) ]
    /\ UNCHANGED << builder_vars, codec_vars >>

\* TriplesMap { .. }: every field is pub, a literal is infallible.
Construct_literal ==
    \E r \in TriplesMapInputs :
        /\ observed' = [ origin |-> "Literal", input |-> r, result |-> Ok(r) ]
        /\ UNCHANGED << builder_vars, codec_vars >>

\* TriplesMapBuilder::default(), setters, build().
Construct_builder ==
    \E b \in TriplesMapInputs :
        /\ observed' = [ origin |-> "Builder", input |-> b, result |-> build(b) ]
        /\ UNCHANGED << builder_vars, codec_vars >>

NextConstruct ==
    \/ Construct_default
    \/ Construct_literal
    \/ Construct_builder

SpecConstruct == Init /\ [][NextConstruct]_vars

\* C4 (as claimed): no TriplesMap with every slot and the extension unset is
\* observable, whichever path constructed it: a path either yields a record
\* with something set or fails with the empty-record error.
NoEmptyTriplesMapObservable ==
    observed # NoValue =>
        \/ observed.result.tag = "Ok" /\ ~AllUnset(observed.result.value)
        \/ observed.result = Err("EmptyTriplesMap")

\* C4 (amended): a TriplesMap returned by the builder has a slot or the
\* extension set, and the builder fails with the empty-record error exactly
\* on an empty builder; TriplesMap::default() yields the record with
\* everything unset, and a struct literal yields exactly its fields.
OnlyBuilderRejectsEmpty ==
    /\ observed.origin = "Builder" =>
           /\ (observed.result = Err("EmptyTriplesMap")) <=> AllUnset(observed.input)
           /\ (observed.result.tag = "Ok") => ~AllUnset(observed.result.value)
    /\ observed.origin = "Default" =>
           (observed.result.tag = "Ok" /\ AllUnset(observed.result.value))
    /\ observed.origin = "Literal" =>
           observed.result = Ok(observed.input)

\* C4 witness: the builder path was given an empty builder and refused it.
BuilderRefusedEmpty ==
    /\ observed.origin = "Builder"
    /\ AllUnset(observed.input)
    /\ observed.result.tag = "Err"

\* ------------------------------------------------------------ CBOR items

\* The data items a ciborium reader or writer exchanges with serde.
Null == [k |-> "null"]

Text(s) == [k |-> "text", s |-> s]

Integer(n) == [k |-> "int", n |-> n]

Bytes(b) == [k |-> "bytes", b |-> b]

Array(a) == [k |-> "array", a |-> a]

\* A map is the sequence of its <<key, value>> entries, in wire order.
Map(m) == [k |-> "map", m |-> m]

Tag(t, v) == [k |-> "tag", t |-> t, v |-> v]

\* ------------------------------------------------- generate_tagged! wrappers

\* Distinct values of a wrapped type.
MaxInner == 2

TaggedConciseMidTag_TAG == 506

TaggedUnsignedCorimMap_TAG == 501

TaggedCOSESign1Corim_TAG == 18

Titles == { "TaggedConciseMidTag", "TaggedUnsignedCorimMap", "TaggedCOSESign1Corim" }

\* $tag_num of each invocation of the macro.
tag_num(title) ==
    CASE title = "TaggedConciseMidTag" -> TaggedConciseMidTag_TAG
      [] title = "TaggedUnsignedCorimMap" -> TaggedUnsignedCorimMap_TAG
      [] title = "TaggedCOSESign1Corim" -> TaggedCOSESign1Corim_TAG

TagNumbers == { tag_num(t) : t \in Titles }

\* Values of the wrapped $type. The macro is generic in $type, which only
\* has to be Serialize + Deserialize; a value stands for a record of the
\* wrapped type that differs from the others in one field.
InnerValues == 1..MaxInner

\* $type's own Serialize: a record type is written as a map.
serialize_inner(v) == Map(<< << Text("1"), Integer(v) >> >>)

\* $type's own Deserialize: accepts exactly what serialize_inner writes.
deserialize_inner(item) ==
    IF /\ item.k = "map"
       /\ Len(item.m) = 1
       /\ item.m[1][1] = Text("1")
       /\ item.m[1][2].k = "int"
       /\ item.m[1][2].n \in InnerValues
    THEN Ok(item.m[1][2].n)
    ELSE Err("invalid type")

\* $title::new(value) and From<$type>: field = Accepted(value).
new(title, value) == [title |-> title, field |-> value]

\* AsMut / DerefMut hand out &mut field.0: a write through it replaces the
\* wrapped value and cannot reach the tag, a const generic of the field type.
as_mut_write(self, value) == [self EXCEPT !.field = value]

\* Serialize for ciborium::tag::Accepted<V, TAG>: Captured(Some(TAG), &self.0),
\* that is the tuple variant "@@TAGGED@@" of the enum "@@TAG@@" with the
\* fields (TAG, value). The tag written is always TAG.
Accepted_serialize(tag, value_item) ==
    [ name |-> "@@TAG@@", variant |-> "@@TAGGED@@",
      fields |-> << Integer(tag), value_item >> ]

\* serde's FlatMapSerializer::serialize_tuple_variant, the serializer a
\* #[serde(flatten)] field is written through: the variant name is written as
\* a key of the enclosing map and the fields as an array value. The call
\* never reaches ciborium's serialize_tuple_variant, the one place where the
\* enum "@@TAG@@" is written as a CBOR tag.
flatmap_serialize_tuple_variant(call) ==
    << Text(call.variant), Array(call.fields) >>

\* #[derive(Serialize)] on $title, whose only field is #[serde(flatten)]:
\* serialize_map(None), the field through FlatMapSerializer, end().
tagged_serialize(self) ==
    Map(<< flatmap_serialize_tuple_variant(
               Accepted_serialize(tag_num(self.title), serialize_inner(self.field))) >>)

\* ciborium's Deserializer::deserialize_map skips leading tags.
RECURSIVE skip_tags(_)
skip_tags(item) == IF item.k = "tag" THEN skip_tags(item.v) ELSE item

\* serde's FlatMapDeserializer::deserialize_enum: the first buffered entry
\* whose key is one of the enum's variant names, 0 if there is none.
RECURSIVE flat_map_take_entry(_, _, _)
flat_map_take_entry(entries, variants, i) ==
    IF i > Len(entries) THEN 0
    ELSE IF entries[i][1].k = "text" /\ entries[i][1].s \in variants THEN i
    ELSE flat_map_take_entry(entries, variants, i + 1)

\* Deserialize for the enum "@@TAG@@" of ciborium::tag through the flattened
\* entries: Captured(tag, value) as [tag: Option<u64>, value: item].
Captured_deserialize_flat(entries) ==
    LET i == flat_map_take_entry(entries, { "@@UNTAGGED@@", "@@TAGGED@@" }, 1) IN
    IF i = 0 THEN Err("no variant of enum @@TAG@@ found in flattened data")
    ELSE IF entries[i][1].s = "@@UNTAGGED@@"
         THEN Ok([tag |-> None, value |-> entries[i][2]])
    ELSE IF /\ entries[i][2].k = "array"
            /\ Len(entries[i][2].a) = 2
            /\ entries[i][2].a[1].k = "int"
         THEN Ok([tag |-> Some(entries[i][2].a[1].n), value |-> entries[i][2].a[2]])
    ELSE Err("invalid type")

\* Deserialize for ciborium::tag::Accepted<V, TAG>: the tag TAG and no tag
\* at all are both accepted, any other tag is refused.
Accepted_deserialize(tag, captured) ==
    IF captured.tag = Some(tag) \/ captured.tag = None
    THEN deserialize_inner(captured.value)
    ELSE Err("required tag not found")

\* #[derive(Deserialize)] on $title: deserialize_map, every entry buffered
\* for the flattened field, the field read from the buffered entries.
tagged_deserialize(title, item) ==
    LET body == skip_tags(item) IN
    IF body.k # "map" THEN Err("expected map")
    ELSE LET captured == Captured_deserialize_flat(body.m) IN
         IF captured.tag = "Err" THEN captured
         ELSE LET inner == Accepted_deserialize(tag_num(title), captured.value) IN
              IF inner.tag = "Err" THEN inner
              ELSE Ok(new(title, inner.value))

\* The items offered to a wrapper's Deserialize: the inner record under each
\* tag number and under none, as a CBOR tag and in the flattened enum form.
DecodeInputs ==
    UNION { { serialize_inner(v),
              Map(<< << Text("@@UNTAGGED@@"), serialize_inner(v) >> >>) }
            \cup { Tag(t, serialize_inner(v)) : t \in TagNumbers }
            \cup { Map(<< << Text("@@TAGGED@@"), Array(<< Integer(t), serialize_inner(v) >>) >> >>) :
                     t \in TagNumbers }
            : v \in InnerValues }

\* ----------------------------------------------- tagged wrappers: operations

Tagged_new ==
    \E title \in Titles, value \in InnerValues :
        /\ wrapper' = new(title, value)
        /\ UNCHANGED << wire, decoded, builder_vars, construct_vars, choice_vars, fixed_vars, comid_vars >>

Tagged_as_mut ==
    \E value \in InnerValues :
        /\ wrapper # NoWrapper
        /\ wrapper' = as_mut_write(wrapper, value)
        /\ UNCHANGED << wire, decoded, builder_vars, construct_vars, choice_vars, fixed_vars, comid_vars >>

Tagged_serialize ==
    /\ wrapper # NoWrapper
    /\ wire' = [ title |-> wrapper.title, of |-> wrapper, item |-> tagged_serialize(wrapper) ]
    /\ UNCHANGED << wrapper, decoded, builder_vars, construct_vars, choice_vars, fixed_vars, comid_vars >>

\* Deserialize of an item received from outside.
Tagged_deserialize ==
    \E title \in Titles, input \in DecodeInputs :
        /\ decoded' = [ title |-> title, input |-> input,
                        result |-> tagged_deserialize(title, input) ]
        /\ UNCHANGED << wrapper, wire, builder_vars, construct_vars, choice_vars, fixed_vars, comid_vars >>

\* Deserialize of the item the wrapper was serialized to.
Tagged_deserialize_wire ==
    /\ wire # NoWire
    /\ decoded' = [ title |-> wire.title, input |-> wire.item,
                    result |-> tagged_deserialize(wire.title, wire.item) ]
    /\ UNCHANGED << wrapper, wire, builder_vars, construct_vars, choice_vars, fixed_vars, comid_vars >>

NextTagged ==
    \/ Tagged_new
    \/ Tagged_as_mut
    \/ Tagged_serialize
    \/ Tagged_deserialize
    \/ Tagged_deserialize_wire

SpecTagged == Init /\ [][NextTagged]_vars

\* --------------------------------------------------- tagged wrappers: claims

\* The tag number an input presents to the wrapper: that of an outer CBOR
\* tag, else that of the flattened "@@TAGGED@@" entry, else none.
observed_tag(item) ==
    IF item.k = "tag" THEN Some(item.t)
    ELSE IF item.k = "map"
         THEN LET c == Captured_deserialize_flat(item.m) IN
              IF c.tag = "Ok" THEN c.value.tag ELSE None
    ELSE None

\* C5 (as claimed): a wrapper is always serialized to the CBOR tag of its
\* declared number around the inner encoding, whatever was written through
\* AsMut / DerefMut; and an input carrying another tag number is refused.
TaggedEncodeEmitsDeclaredTag ==
    /\ wire # NoWire =>
           wire.item = Tag(tag_num(wire.of.title), serialize_inner(wire.of.field))
    /\ (decoded # NoDecode /\ observed_tag(decoded.input) # None
          /\ observed_tag(decoded.input) # Some(tag_num(decoded.title))) =>
           decoded.result.tag = "Err"

\* C6 (as claimed): a wrapper is decoded only from an input whose tag is the
\* wrapper's constant; an input with the inner value and no tag is refused.
TaggedDecodeRequiresTag ==
    (decoded # NoDecode /\ decoded.result.tag = "Ok") =>
        observed_tag(decoded.input) = Some(tag_num(decoded.title))

\* ------------------------------------------------------------ type choices

\* Length of a UUID in bytes.
UuidLen == 16

\* The enums of comid.rs and corim.rs that stand for a type choice: whether
\* the enum is #[serde(untagged)], and its variants in declared order, each
\* a unit variant or a newtype variant around an inner type.
Unit(name) == [name |-> name, kind |-> "unit", inner |-> "()"]

Newtype(name, inner) == [name |-> name, kind |-> "newtype", inner |-> inner]

TagIdTypeChoice ==
    [ untagged |-> TRUE,
      variants |-> << Newtype("Tstr", "Tstr"), Newtype("Uuid", "UuidType") >> ]

ComidRoleTypeChoice ==
    [ untagged |-> TRUE,
      variants |-> << Unit("TagCreator"), Unit("Creator"), Unit("Maintainer") >> ]

TagRelTypeChoice ==
    [ untagged |-> TRUE,
      variants |-> << Unit("Supplements"), Unit("Replaces") >> ]

ConciseRimTypeChoice ==
    [ untagged |-> FALSE,
      variants |-> << Newtype("TaggedUnsignedCorimMap", "TaggedUnsignedCorimMap"),
                      Newtype("SignedCorim", "TaggedCOSESign1Corim") >> ]

CorimIdTypeChoice ==
    [ untagged |-> FALSE,
      variants |-> << Newtype("Tstr", "Tstr"), Newtype("Uuid", "UuidType") >> ]

ConciseTagTypeChoice ==
    [ untagged |-> FALSE,
      variants |-> << Newtype("Swid", "TaggedConciseSwidTag"),
                      Newtype("Mid", "TaggedConciseMidTag"),
                      Newtype("Tl", "TaggedConciseTlTag") >> ]

ProfileTypeChoice ==
    [ untagged |-> FALSE,
      variants |-> << Newtype("Uri", "Uri"), Newtype("OidType", "OidType") >> ]

ChoiceTypes ==
    { "TagIdTypeChoice", "ComidRoleTypeChoice", "TagRelTypeChoice",
      "ConciseRimTypeChoice", "CorimIdTypeChoice", "ConciseTagTypeChoice",
      "ProfileTypeChoice" }

EnumDecl(ty) ==
    CASE ty = "TagIdTypeChoice" -> TagIdTypeChoice
      [] ty = "ComidRoleTypeChoice" -> ComidRoleTypeChoice
      [] ty = "TagRelTypeChoice" -> TagRelTypeChoice
      [] ty = "ConciseRimTypeChoice" -> ConciseRimTypeChoice
      [] ty = "CorimIdTypeChoice" -> CorimIdTypeChoice
      [] ty = "ConciseTagTypeChoice" -> ConciseTagTypeChoice
      [] ty = "ProfileTypeChoice" -> ProfileTypeChoice

UntaggedTypes == { ty \in ChoiceTypes : EnumDecl(ty).untagged }

\* A value of a type choice: the enum, the active variant and the variant's
\* inner value. An inner value is held as the item its own Serialize writes
\* (the inner types are transparent to the enum); a unit variant has none.
NoInner == [k |-> "unit"]

ChoiceValue(ty, variant, inner) == [ty |-> ty, variant |-> variant, inner |-> inner]

VariantDecl(x) ==
    LET vs == EnumDecl(x.ty).variants IN
    vs[CHOOSE i \in DOMAIN vs : vs[i].name = x.variant]

\* Deserialize of the inner types: Tstr and Uri read a text string, UuidType
\* a byte string of exactly UuidLen bytes, OidType a byte string, a tagged
\* wrapper what its derived Deserialize reads.
type_accepts(inner_ty, item) ==
    CASE inner_ty \in { "Tstr", "Uri" } -> item.k = "text"
      [] inner_ty = "UuidType" -> item.k = "bytes" /\ Len(item.b) = UuidLen
      [] inner_ty = "OidType" -> item.k = "bytes"
      [] inner_ty \in Titles -> tagged_deserialize(inner_ty, item).tag = "Ok"
      [] OTHER -> FALSE

\* One candidate of an untagged enum tried against the buffered input: a
\* unit variant matches the unit value (CBOR null), a newtype variant what
\* its inner type reads.
variant_accepts(v, item) ==
    IF v.kind = "unit" THEN item.k = "null" ELSE type_accepts(v.inner, item)

variant_value(ty, v, item) ==
    ChoiceValue(ty, v.name, IF v.kind = "unit" THEN NoInner ELSE item)

\* #[derive(Serialize)] on an enum, written by ciborium. Untagged: a unit
\* variant is serialize_unit (null), a newtype variant is its inner value.
\* Without the attribute the enum is externally tagged: a unit variant is
\* serialize_unit_variant (the variant name as text), a newtype variant is
\* serialize_newtype_variant (a one-entry map from the variant name).
enum_serialize(x) ==
    LET v == VariantDecl(x) IN
    IF EnumDecl(x.ty).untagged
    THEN IF v.kind = "unit" THEN Null ELSE x.inner
    ELSE IF v.kind = "unit" THEN Text(v.name)
         ELSE Map(<< << Text(v.name), x.inner >> >>)

\* An untagged resolver that never tries the first candidate.
RECURSIVE untagged_try_skipping_first(_, _, _, _)
untagged_try_skipping_first(ty, candidates, item, i) ==
    IF i + 1 > Len(candidates)
    THEN Err("data did not match any variant of untagged enum")
    ELSE IF variant_accepts(candidates[i + 1], item)
         THEN Ok(variant_value(ty, candidates[i + 1], item))
    ELSE untagged_try_skipping_first(ty, candidates, item, i + 1)

\* #[derive(Deserialize)] with #[serde(untagged)]: the input is buffered, the
\* candidates are tried in order from the i-th on, the first success is
\* returned; when none succeeds the enum's no-match error is.
RECURSIVE untagged_try(_, _, _, _)
untagged_try(ty, candidates, item, i) ==
    IF i > Len(candidates)
    THEN Err("data did not match any variant of untagged enum")
    ELSE IF variant_accepts(candidates[i], item)
         THEN Ok(variant_value(ty, candidates[i], item))
    ELSE untagged_try(ty, candidates, item, i + 1)

\* #[derive(Deserialize)] on an externally tagged enum, read by ciborium: a
\* text names a unit variant, a one-entry map names a newtype variant.
external_deserialize(ty, candidates, item) ==
    LET named(n) == { i \in DOMAIN candidates : candidates[i].name = n } IN
    IF item.k = "text" /\ \E i \in named(item.s) : candidates[i].kind = "unit"
    THEN Ok(ChoiceValue(ty, item.s, NoInner))
    ELSE IF /\ item.k = "map"
            /\ Len(item.m) = 1
            /\ item.m[1][1].k = "text"
            /\ \E i \in named(item.m[1][1].s) :
                   /\ candidates[i].kind = "newtype"
                   /\ type_accepts(candidates[i].inner, item.m[1][2])
         THEN Ok(ChoiceValue(ty, item.m[1][1].s, item.m[1][2]))
    ELSE Err("invalid type")

\* Deserialize of a type choice whose candidates are listed in `candidates`.
enum_deserialize(ty, candidates, item) ==
    IF EnumDecl(ty).untagged
    THEN untagged_try(ty, candidates, item, 1)
    ELSE external_deserialize(ty, candidates, item)

\* Every order the candidates of an enum can be listed in.
Orders(ty) ==
    LET vs == EnumDecl(ty).variants
        n == Len(vs)
    IN { [i \in 1..n |-> vs[p[i]]] :
           p \in { f \in [1..n -> 1..n] : \A i, j \in 1..n : f[i] = f[j] => i = j } }

TextValues == { "example-tag-id", "Corim-Unique-Identifier-01" }

UuidValues == { [i \in 1..UuidLen |-> b] : b \in 0..1 }

WrapperItems(title) == { tagged_serialize(new(title, v)) : v \in InnerValues }

\* The values of the type choices that are serialized.
ChoiceValues ==
    { ChoiceValue("TagIdTypeChoice", "Tstr", Text(t)) : t \in TextValues }
    \cup { ChoiceValue("TagIdTypeChoice", "Uuid", Bytes(u)) : u \in UuidValues }
    \cup { ChoiceValue("ComidRoleTypeChoice", n, NoInner) :
             n \in { "TagCreator", "Creator", "Maintainer" } }
    \cup { ChoiceValue("TagRelTypeChoice", n, NoInner) : n \in { "Supplements", "Replaces" } }
    \cup { ChoiceValue("CorimIdTypeChoice", "Tstr", Text(t)) : t \in TextValues }
    \cup { ChoiceValue("CorimIdTypeChoice", "Uuid", Bytes(u)) : u \in UuidValues }
    \cup { ChoiceValue("ProfileTypeChoice", "Uri", Text(t)) : t \in TextValues }
    \cup { ChoiceValue("ProfileTypeChoice", "OidType", Bytes(<< 1, 2 >>)) }
    \cup { ChoiceValue("ConciseTagTypeChoice", "Mid", w) :
             w \in WrapperItems("TaggedConciseMidTag") }
    \cup { ChoiceValue("ConciseRimTypeChoice", "TaggedUnsignedCorimMap", w) :
             w \in WrapperItems("TaggedUnsignedCorimMap") }
    \cup { ChoiceValue("ConciseRimTypeChoice", "SignedCorim", w) :
             w \in WrapperItems("TaggedCOSESign1Corim") }

\* The items offered to the Deserialize of an untagged type choice.
ChoiceInputs ==
    { Null, Integer(0), Integer(1), Integer(2), Map(<< >>), Bytes(<< 1, 2 >>) }
    \cup { Text(t) : t \in TextValues }
    \cup { Bytes(u) : u \in UuidValues }

\* ------------------------------------------------- type choices: operations

Choice_serialize ==
    \E x \in ChoiceValues :
        /\ choice_wire' = [ title |-> x.ty, of |-> x, item |-> enum_serialize(x) ]
        /\ UNCHANGED << choice_decoded, builder_vars, construct_vars, tagged_vars, fixed_vars, comid_vars >>

\* Deserialize of the item a value was serialized to, by the enum as declared.
Choice_deserialize_wire ==
    /\ choice_wire # NoWire
    /\ choice_decoded' =
           [ title |-> choice_wire.title,
             order |-> EnumDecl(choice_wire.title).variants,
             input |-> choice_wire.item,
             of |-> Some(choice_wire.of),
             result |-> enum_deserialize(choice_wire.title,
                                         EnumDecl(choice_wire.title).variants,
                                         choice_wire.item) ]
    /\ UNCHANGED << choice_wire, builder_vars, construct_vars, tagged_vars, fixed_vars, comid_vars >>

\* Deserialize of a received item by an untagged enum whose candidates are
\* listed in some order (the declared order is one of them).
Choice_deserialize ==
    \E ty \in UntaggedTypes :
        \E order \in Orders(ty), input \in ChoiceInputs :
            /\ choice_decoded' =
                   [ title |-> ty, order |-> order, input |-> input, of |-> None,
                     result |-> enum_deserialize(ty, order, input) ]
            /\ UNCHANGED << choice_wire, builder_vars, construct_vars, tagged_vars, fixed_vars, comid_vars >>

NextChoice ==
    \/ Choice_serialize
    \/ Choice_deserialize_wire
    \/ Choice_deserialize

SpecChoice == Init /\ [][NextChoice]_vars

\* ----------------------------------------------------- type choices: claims

\* The explicit discriminants of ComidRoleTypeChoice, which its doc comments
\* give as the values of the roles.
discriminant(name) ==
    CASE name = "TagCreator" -> 0
      [] name = "Creator" -> 1
      [] name = "Maintainer" -> 2

RoleValues ==
    { ChoiceValue("ComidRoleTypeChoice", n, NoInner) :
        n \in { "TagCreator", "Creator", "Maintainer" } }

\* C7 (as claimed): every variant of ComidRoleTypeChoice and TagRelTypeChoice
\* survives the round trip: deserializing what the variant was serialized to
\* gives the variant back.
EnumeratedChoiceRoundTrips ==
    ( /\ choice_decoded # NoDecode
      /\ choice_decoded.of # None
      /\ choice_decoded.title \in { "ComidRoleTypeChoice", "TagRelTypeChoice" } ) =>
        choice_decoded.result = Ok(choice_decoded.of[1])

\* C8 (as claimed): a role is serialized to the integer its documentation
\* gives (TagCreator 0, Creator 1, Maintainer 2), so two different roles are
\* serialized to different items.
RolesEncodeAsDocumented ==
    (choice_wire # NoWire /\ choice_wire.title = "ComidRoleTypeChoice") =>
        /\ choice_wire.item = Integer(discriminant(choice_wire.of.variant))
        /\ \A y \in RoleValues :
               y # choice_wire.of => enum_serialize(y) # choice_wire.item

ChoiceEncodingAddsNoFraming ==
    (choice_wire # NoWire /\ VariantDecl(choice_wire.of).kind = "newtype") =>
        choice_wire.item = choice_wire.of.inner

\* -------------------------------------------------------------- FixedBytes

\* Largest N of a FixedBytes<N> that is exercised.
MaxFixedLen == 2

\* The const generic N of FixedBytes<N>.
FixedLens == 0..MaxFixedLen

\* The u8 values that are exercised.
ByteValues == { 0, 255 }

\* Byte strings of every length from 0 to one more than the largest N, two
\* of each length: the bytes alternate, starting with either value.
ByteStrings ==
    { [i \in 1..n |-> IF (i + p) % 2 = 0 THEN 0 ELSE 255] :
        n \in 0..(MaxFixedLen + 1), p \in 0..1 }

\* The tuple struct FixedBytes<N>(pub [u8; N]).
FixedBytes(N, arr) == [N |-> N, arr |-> arr]

\* The values of FixedBytes<N> for the exercised N.
FixedValues == UNION { { FixedBytes(N, a) : a \in [1..N -> ByteValues] } : N \in FixedLens }

\* E::custom(format!("expected a byte array of length {}, but got {}", N, len)):
\* the message, held as its two arguments.
custom(N, len) == [kind |-> "custom", expected |-> N, got |-> len]

\* The Visitor methods FixedBytesVisitor leaves at serde's default.
invalid_type(k) == [kind |-> "invalid type", unexpected |-> k]

\* [0u8; N]
zeroed(N) == [i \in 1..N |-> 0]

\* <[u8]>::copy_from_slice: every element of dst is overwritten by the
\* element of src at the same position (the lengths are equal at the call).
copy_from_slice(dst, src) == [i \in DOMAIN dst |-> src[i]]

\* A visit_bytes that takes the first N bytes of a longer input.
visit_bytes_truncating(N, value) ==
    IF Len(value) < N
    THEN Err(custom(N, Len(value)))
    ELSE Ok(FixedBytes(N, copy_from_slice(zeroed(N), SubSeq(value, 1, N))))

visit_bytes(N, value) ==
    IF Len(value) # N
    THEN Err(custom(N, Len(value)))
    ELSE LET arr == copy_from_slice(zeroed(N), value) IN
         Ok(FixedBytes(N, arr))

visit_borrowed_bytes(N, v) == visit_bytes(N, v)

visit_byte_buf(N, v) == visit_bytes(N, v)

\* The three methods a deserializer may hand a byte string to.
VisitMethods == { "visit_bytes", "visit_borrowed_bytes", "visit_byte_buf" }

\* Deserialize for FixedBytes<N>: deserialize_bytes with the visitor. The
\* deserializer hands a byte string to one of the visitor's bytes methods,
\* whichever suits how it holds the bytes; any other item reaches a method
\* left at its default.
FixedBytes_deserialize(N, item, method) ==
    IF item.k # "bytes" THEN Err(invalid_type(item.k))
    ELSE CASE method = "visit_bytes" -> visit_bytes(N, item.b)
           [] method = "visit_borrowed_bytes" -> visit_borrowed_bytes(N, item.b)
           [] method = "visit_byte_buf" -> visit_byte_buf(N, item.b)

\* A Serialize that writes the array element by element.
FixedBytes_serialize_as_seq(self) ==
    Array([i \in DOMAIN self.arr |-> Integer(self.arr[i])])

\* Serialize for FixedBytes<N>: serialize_bytes(&self.0).
FixedBytes_serialize(self) == Bytes(self.arr)

\* Deref: &self.0, of type &[u8; N].
deref(self) == self.arr

\* AsRef<U> where [u8; N]: AsRef<U>: self.0.as_ref(), the array as a slice.
as_ref(self) == self.arr

\* DerefMut: &mut self.0, of type &mut [u8; N]. A write through it stores one
\* element; the array type leaves no way to change the length.
deref_mut_write(self, i, b) == [self EXCEPT !.arr[i] = b]

\* AsMut<U> where [u8; N]: AsMut<U>: self.0.as_mut(), a &mut [u8] over the
\* array. A write through it stores one element; a slice cannot grow.
FixedBytes_as_mut_write(self, i, b) == [self EXCEPT !.arr[i] = b]

\* The items offered to the Deserialize of a FixedBytes<N>.
FixedInputs ==
    { Bytes(b) : b \in ByteStrings } \cup { Null, Text("example-tag-id"), Array(<< >>) }

\* ------------------------------------------------- FixedBytes: operations

\* FixedBytes(arr): the field is pub, any [u8; N] makes a value.
Fixed_new ==
    \E x \in FixedValues :
        /\ fixed' = x
        /\ UNCHANGED << fixed_out, fixed_decoded,
                        builder_vars, construct_vars, tagged_vars, choice_vars, comid_vars >>

\* Deserialize of an item received from outside; a client keeps the buffer
\* a successful call returns.
Fixed_deserialize ==
    \E N \in FixedLens, input \in FixedInputs, method \in VisitMethods :
        LET result == FixedBytes_deserialize(N, input, method) IN
        /\ fixed_decoded' = [ title |-> "FixedBytes", N |-> N, input |-> input,
                              of |-> None, result |-> result ]
        /\ fixed' = IF result.tag = "Ok" THEN result.value ELSE fixed
        /\ UNCHANGED << fixed_out,
                        builder_vars, construct_vars, tagged_vars, choice_vars, comid_vars >>

Fixed_serialize ==
    /\ fixed # NoBuffer
    /\ fixed_out' = [ via |-> "serialize", of |-> fixed, out |-> FixedBytes_serialize(fixed) ]
    /\ UNCHANGED << fixed, fixed_decoded,
                    builder_vars, construct_vars, tagged_vars, choice_vars, comid_vars >>

\* Deserialize, into the same FixedBytes<N>, of the item a value was
\* serialized to.
Fixed_deserialize_wire ==
    /\ fixed_out.via = "serialize"
    /\ \E method \in VisitMethods :
           fixed_decoded' = [ title |-> "FixedBytes", N |-> fixed_out.of.N,
                              input |-> fixed_out.out, of |-> Some(fixed_out.of),
                              result |-> FixedBytes_deserialize(fixed_out.of.N,
                                                                fixed_out.out, method) ]
    /\ UNCHANGED << fixed, fixed_out,
                    builder_vars, construct_vars, tagged_vars, choice_vars, comid_vars >>

Fixed_deref ==
    /\ fixed # NoBuffer
    /\ fixed_out' = [ via |-> "deref", of |-> fixed, out |-> deref(fixed) ]
    /\ UNCHANGED << fixed, fixed_decoded,
                    builder_vars, construct_vars, tagged_vars, choice_vars, comid_vars >>

Fixed_as_ref ==
    /\ fixed # NoBuffer
    /\ fixed_out' = [ via |-> "as_ref", of |-> fixed, out |-> as_ref(fixed) ]
    /\ UNCHANGED << fixed, fixed_decoded,
                    builder_vars, construct_vars, tagged_vars, choice_vars, comid_vars >>

Fixed_deref_mut ==
    /\ fixed # NoBuffer
    /\ \E i \in 1..fixed.N, b \in ByteValues :
           fixed' = deref_mut_write(fixed, i, b)
    /\ UNCHANGED << fixed_out, fixed_decoded,
                    builder_vars, construct_vars, tagged_vars, choice_vars, comid_vars >>

Fixed_as_mut ==
    /\ fixed # NoBuffer
    /\ \E i \in 1..fixed.N, b \in ByteValues :
           fixed' = FixedBytes_as_mut_write(fixed, i, b)
    /\ UNCHANGED << fixed_out, fixed_decoded,
                    builder_vars, construct_vars, tagged_vars, choice_vars, comid_vars >>

NextFixed ==
    \/ Fixed_new
    \/ Fixed_deserialize
    \/ Fixed_serialize
    \/ Fixed_deserialize_wire
    \/ Fixed_deref
    \/ Fixed_as_ref
    \/ Fixed_deref_mut
    \/ Fixed_as_mut

SpecFixed == Init /\ [][NextFixed]_vars

\* ----------------------------------------------------- FixedBytes: claims

\* C11: a byte string is decoded into a FixedBytes<N> exactly when its length
\* is N; a byte string of any other length L (N-1, N+1 and 0 included) fails
\* with the error that reports N as expected and L as found, and no buffer
\* is returned; a byte string of length N gives the buffer whose bytes are
\* those of the input, in order.
DecodeSucceedsIffLengthIsN ==
    (fixed_decoded # NoDecode /\ fixed_decoded.input.k = "bytes") =>
        LET d == fixed_decoded
            L == Len(d.input.b)
        IN /\ (d.result.tag = "Ok") <=> (L = d.N)
           /\ (L # d.N) => d.result = Err(custom(d.N, L))
           /\ (L = d.N) =>
                  /\ d.result.value.N = d.N
                  /\ Len(d.result.value.arr) = d.N
                  /\ \A i \in 1..d.N : d.result.value.arr[i] = d.input.b[i]

\* C11 witness: a byte string one byte longer than N, with N = 1, was refused
\* and a byte string of length N with two different bytes was accepted.
DecodedOneTooLong ==
    /\ fixed_decoded # NoDecode
    /\ fixed_decoded.N = 1
    /\ fixed_decoded.input = Bytes(<< 255, 0 >>)
    /\ fixed_decoded.result.tag = "Err"
    /\ fixed # NoBuffer
    /\ fixed.arr = << 0, 255 >>

\* C12: a FixedBytes<N> holds N bytes after any sequence of decode, Deref /
\* DerefMut and AsRef / AsMut operations; Deref and AsRef hand out those N
\* bytes; it is serialized to one byte string of those N bytes; and
\* deserializing what a buffer was serialized to gives the buffer back.
FixedBytesKeepsLengthN ==
    /\ fixed # NoBuffer => (DOMAIN fixed.arr = 1..fixed.N)
    /\ fixed_out.via \in { "deref", "as_ref" } =>
           (fixed_out.out = fixed_out.of.arr /\ Len(fixed_out.out) = fixed_out.of.N)
    /\ fixed_out.via = "serialize" =>
           /\ fixed_out.out = Bytes(fixed_out.of.arr)
           /\ Len(fixed_out.out.b) = fixed_out.of.N
    /\ (fixed_decoded # NoDecode /\ fixed_decoded.of # None) =>
           fixed_decoded.result = Ok(fixed_decoded.of[1])

\* C12 witness: a buffer that was written through DerefMut or AsMut was
\* serialized and read back.
WrittenBufferReadBack ==
    /\ fixed_decoded # NoDecode
    /\ fixed_decoded.of = Some(FixedBytes(2, << 255, 0 >>))
    /\ fixed_decoded.result.tag = "Ok"
    /\ fixed_out.via = "as_ref"
    /\ fixed_out.out = << 0, 0 >>

\* ------------------------------------------------- ConciseMidTag: encoding

\* TagIdentityMap { tag_id, tag_version }.
TagIdentityMap(tag_id, tag_version) == [tag_id |-> tag_id, tag_version |-> tag_version]

\* ComidEntityMap { entity_name, reg_id, role, extension }.
ComidEntityMap(entity_name, reg_id, role, ext) ==
    [entity_name |-> entity_name, reg_id |-> reg_id, role |-> role, extension |-> ext]

\* LinkedTagMap { linked_tag_id, tag_rel }.
LinkedTagMap(linked_tag_id, tag_rel) == [linked_tag_id |-> linked_tag_id, tag_rel |-> tag_rel]

\* ConciseMidTag { language, tag_identity, entities, linked_tags, triples,
\* extension }.
ConciseMidTag(language, tag_identity, entities, linked_tags, triples, ext) ==
    [ language |-> language, tag_identity |-> tag_identity, entities |-> entities,
      linked_tags |-> linked_tags, triples |-> triples, extension |-> ext ]

\* serialize_entry(name, value) of a derived Serialize: the key is the field's
\* (renamed) name, a string, which ciborium writes as a text string.
entry(name, item) == << << Text(name), item >> >>

\* #[serde(flatten)] on Option<ExtensionMap>: the entries of the extension
\* map are written into the enclosing map; None writes nothing.
flattened(o) == IF is_none(o) THEN << >> ELSE o[1]

\* #[derive(Serialize)] on TagIdentityMap.
TagIdentityMap_serialize(self) ==
    Map(entry("0", enum_serialize(self.tag_id))
        \o (IF is_none(self.tag_version) THEN << >>
            ELSE entry("1", Integer(self.tag_version[1]))))

\* #[derive(Serialize)] on ComidEntityMap; the Vec of roles is written as a
\* sequence of the roles' items.
ComidEntityMap_serialize(self) ==
    Map(entry("31", Text(self.entity_name))
        \o (IF is_none(self.reg_id) THEN << >> ELSE entry("32", Text(self.reg_id[1])))
        \o entry("33", Array([i \in DOMAIN self.role |-> enum_serialize(self.role[i])]))
        \o flattened(self.extension))

\* #[derive(Serialize)] on LinkedTagMap.
LinkedTagMap_serialize(self) ==
    Map(entry("0", enum_serialize(self.linked_tag_id))
        \o entry("1", enum_serialize(self.tag_rel)))

\* Serialize of the content of a TriplesMap slot, a NonEmptyVec of records:
\* a sequence. A slot value p stands for the list of the one record p.
slot_serialize(p) == Array(<< Integer(p) >>)

\* #[derive(Serialize)] on TriplesMap.
TriplesMap_serialize(self) ==
    LET slot(name, f) == IF is_none(self[f]) THEN << >>
                         ELSE entry(name, slot_serialize(self[f][1]))
    IN Map(slot("0", "reference_triples")
           \o slot("1", "endorsed_triples")
           \o slot("2", "identity_triples")
           \o slot("3", "attest_key_triples")
           \o slot("4", "dependency_triples")
           \o slot("5", "membership_triples")
           \o slot("6", "coswid_triples")
           \o slot("8", "conditional_endorsement_series_triples")
           \o slot("10", "conditional_endorsement_triples")
           \o flattened(self.extension))

\* Serialize of NonEmptyVec<ComidEntityMap>: a sequence of the elements' items.
entities_serialize(v) == Array([i \in DOMAIN v |-> ComidEntityMap_serialize(v[i])])

\* Serialize of NonEmptyVec<LinkedTagMap>: a sequence of the elements' items.
linked_tags_serialize(v) == Array([i \in DOMAIN v |-> LinkedTagMap_serialize(v[i])])

\* #[derive(Serialize)] on ConciseMidTag: the entries in declaration order,
\* a field with skip_serializing_if = "Option::is_none" only when it is Some.
ConciseMidTag_serialize(self) ==
    Map((IF is_none(self.language) THEN << >> ELSE entry("0", Text(self.language[1])))
        \o entry("1", TagIdentityMap_serialize(self.tag_identity))
        \o (IF is_none(self.entities) THEN << >>
            ELSE entry("2", entities_serialize(self.entities[1])))
        \o (IF is_none(self.linked_tags) THEN << >>
            ELSE entry("3", linked_tags_serialize(self.linked_tags[1])))
        \o entry("4", TriplesMap_serialize(self.triples))
        \o flattened(self.extension))

\* #[derive(Serialize)] on TaggedConciseMidTag (generate_tagged!), whose
\* flattened field wraps the ConciseMidTag.
TaggedConciseMidTag_serialize(self) ==
    Map(<< flatmap_serialize_tuple_variant(
               Accepted_serialize(TaggedConciseMidTag_TAG, ConciseMidTag_serialize(self))) >>)

\* The values the fields of an encoded ConciseMidTag take.
TagIdentityValues ==
    { TagIdentityMap(ChoiceValue("TagIdTypeChoice", "Tstr", Text("example-tag-id")), v) :
        v \in { None, Some(1) } }

EntityValues ==
    { ComidEntityMap("Example Corp", None,
                     << ChoiceValue("ComidRoleTypeChoice", "TagCreator", NoInner) >>, None) }

LinkedTagValues ==
    { LinkedTagMap(ChoiceValue("TagIdTypeChoice", "Tstr", Text("Corim-Unique-Identifier-01")),
                   ChoiceValue("TagRelTypeChoice", "Replaces", NoInner)) }

\* An ExtensionMap: entries under keys outside the reserved range.
ExtensionValues == { << << Integer(-1), Text("example-tag-id") >> >> }

EncodedTriples ==
    { TriplesMap_default,
      TriplesMapWith({ "reference_triples" }, 1),
      TriplesMapWith({ "reference_triples", "endorsed_triples" }, 1) }

ComidValues ==
    { ConciseMidTag(l, t, e, k, tr, x) :
        l \in { None, Some("en-US") },
        t \in TagIdentityValues,
        e \in { None } \cup { Some(<< v >>) : v \in EntityValues },
        k \in { None } \cup { Some(<< v >>) : v \in LinkedTagValues },
        tr \in EncodedTriples,
        x \in { None } \cup { Some(v) : v \in ExtensionValues } }

\* ------------------------------------- ConciseMidTag: encoding operations

\* ciborium::into_writer(&comid, ..) on a ConciseMidTag.
Comid_serialize ==
    \E x \in ComidValues :
        /\ comid_wire' = [ title |-> "ConciseMidTag", of |-> x,
                           item |-> ConciseMidTag_serialize(x) ]
        /\ UNCHANGED << comid, comid_start, comid_log, comid_last, comid_calls,
                        builder_vars, construct_vars, tagged_vars, choice_vars, fixed_vars >>

\* ciborium::into_writer(&TaggedConciseMidTag::new(comid), ..).
Comid_serialize_tagged ==
    \E x \in ComidValues :
        /\ comid_wire' = [ title |-> "TaggedConciseMidTag", of |-> x,
                           item |-> TaggedConciseMidTag_serialize(x) ]
        /\ UNCHANGED << comid, comid_start, comid_log, comid_last, comid_calls,
                        builder_vars, construct_vars, tagged_vars, choice_vars, fixed_vars >>

NextComidEncode ==
    \/ Comid_serialize
    \/ Comid_serialize_tagged

SpecComidEncode == Init /\ [][NextComidEncode]_vars

\* --------------------------------------------- ConciseMidTag: encoding claim

\* The reserved keys of ConciseMidTag a populated slot is written under, in
\* declaration order.
expected_keys(x) ==
    (IF is_none(x.language) THEN << >> ELSE << 0 >>)
    \o << 1 >>
    \o (IF is_none(x.entities) THEN << >> ELSE << 2 >>)
    \o (IF is_none(x.linked_tags) THEN << >> ELSE << 3 >>)
    \o << 4 >>

\* The keys of a map among the integers 0..4, in wire order.
reserved_keys(m) ==
    LET reserved(e) == e[1].k = "int" /\ e[1].n \in 0..4
        kept == SelectSeq(m, reserved)
    IN [i \in DOMAIN kept |-> kept[i][1].n]

\* C13 (as claimed): a ConciseMidTag is encoded to the CBOR tag 506 around a
\* map whose reserved integer keys are, in declared order, 1 and 4 always and
\* 0, 2, 3 exactly when language, entities, linked_tags are Some; a tag with
\* language None, entities Some and linked_tags None gives keys 1, 2, 4.
ComidEncodesTaggedReservedKeys ==
    comid_wire # NoWire =>
        /\ comid_wire.item.k = "tag"
        /\ comid_wire.item.t = TaggedConciseMidTag_TAG
        /\ comid_wire.item.v.k = "map"
        /\ reserved_keys(comid_wire.item.v.m) = expected_keys(comid_wire.of)
        /\ ( /\ is_none(comid_wire.of.language)
             /\ ~is_none(comid_wire.of.entities)
             /\ is_none(comid_wire.of.linked_tags) ) =>
               reserved_keys(comid_wire.item.v.m) = << 1, 2, 4 >>

\* ------------------------------------------ ConciseMidTag: add_*_raw_value

\* Distinct EnvironmentMap values.
MaxEnv == 2
\* add_*_raw_value calls made on one ConciseMidTag.
MaxAddCalls == 3

\* EnvironmentMap values; two of them are equal exactly when they are the
\* same number.
Envs == 1..MaxEnv

\* A value whose Serialize fails.
Unserializable == [k |-> "unserializable"]

\* ciborium::into_writer(value, &mut raw_bytes): the bytes of the CBOR
\* encoding of the value, or the error its Serialize returned. A small
\* unsigned integer is one byte, null is 0xf6, a short byte string is its
\* length under major type 2 followed by its bytes.
into_writer(value) ==
    CASE value.k = "int" -> Ok(<< value.n >>)
      [] value.k = "null" -> Ok(<< 246 >>)
      [] value.k = "bytes" -> Ok(<< 64 + Len(value.b) >> \o value.b)
      [] OTHER -> Err("serialization failed")

\* TaggedBytes::new(raw_bytes.into())
TaggedBytes(b) == [tagged_bytes |-> b]

\* MeasurementMap { mkey: Some(mkey), mval: MeasurementValuesMap { raw:
\* Some(RawValueType { raw_value, raw_value_mask: None }),
\* ..Default::default() }, authorized_by: None }
MeasurementMap(mkey, raw_value) ==
    [ mkey |-> Some(mkey),
      mval |-> [ raw |-> Some([raw_value |-> raw_value, raw_value_mask |-> None]),
                 rest |-> "Default::default()" ],
      authorized_by |-> None ]

ReferenceTripleRecord(ref_env, ref_claims) == [ref_env |-> ref_env, ref_claims |-> ref_claims]

EndorsedTripleRecord(condition, endorsement) ==
    [condition |-> condition, endorsement |-> endorsement]

\* The list in an Option<NonEmptyVec<..>> slot, empty for None.
triples_of(o) == IF is_none(o) THEN << >> ELSE o[1]

\* A find that never looks at the record it is started on.
RECURSIVE find_skipping_first(_, _, _, _)
find_skipping_first(vec, field, environment, i) ==
    IF i + 1 > Len(vec) THEN 0
    ELSE IF vec[i + 1][field] = environment THEN i + 1
    ELSE find_skipping_first(vec, field, environment, i + 1)

\* vec.iter_mut().find(|r| r.<field> == *environment): the position of the
\* first record from the i-th on whose environment equals the argument, 0
\* when there is none.
RECURSIVE find(_, _, _, _)
find(vec, field, environment, i) ==
    IF i > Len(vec) THEN 0
    ELSE IF vec[i][field] = environment THEN i
    ELSE find(vec, field, environment, i + 1)

\* What a call leaves behind: the ConciseMidTag and the io::Result.
Outcome(self, result) == [self |-> self, result |-> result]

io_error(e) == Err([kind |-> "std::io::ErrorKind::Other", msg |-> e.err])

\* An add_reference_raw_value that starts the claims of a matching triple
\* afresh.
add_reference_restarting_claims(self, environment, mkey, value) ==
    LET raw_bytes == into_writer(value) IN
    IF raw_bytes.tag = "Err" THEN Outcome(self, io_error(raw_bytes))
    ELSE
    LET measurement == MeasurementMap(mkey, TaggedBytes(raw_bytes.value))
        new_record == ReferenceTripleRecord(environment, << measurement >>)
        vec == triples_of(self.triples.reference_triples)
        record == find(vec, "ref_env", environment, 1)
    IN IF record # 0
       THEN Outcome([self EXCEPT !.triples.reference_triples =
                         Some([vec EXCEPT ![record].ref_claims = << measurement >>])],
                    Ok("()"))
       ELSE Outcome([self EXCEPT !.triples.reference_triples = Some(Append(vec, new_record))],
                    Ok("()"))

\* An add_reference_raw_value that puts the triple of a new environment in
\* front of the stored ones.
add_reference_pushing_front(self, environment, mkey, value) ==
    LET raw_bytes == into_writer(value) IN
    IF raw_bytes.tag = "Err" THEN Outcome(self, io_error(raw_bytes))
    ELSE
    LET measurement == MeasurementMap(mkey, TaggedBytes(raw_bytes.value))
        new_record == ReferenceTripleRecord(environment, << measurement >>)
        vec == triples_of(self.triples.reference_triples)
        record == find(vec, "ref_env", environment, 1)
    IN IF record # 0
       THEN Outcome([self EXCEPT !.triples.reference_triples =
                         Some([vec EXCEPT ![record].ref_claims = Append(@, measurement)])],
                    Ok("()"))
       ELSE Outcome([self EXCEPT !.triples.reference_triples =
                         Some(<< new_record >> \o vec)],
                    Ok("()"))

\* An add_reference_raw_value that never looks for a matching triple.
add_reference_always_pushes(self, environment, mkey, value) ==
    LET raw_bytes == into_writer(value) IN
    IF raw_bytes.tag = "Err" THEN Outcome(self, io_error(raw_bytes))
    ELSE
    LET new_record == ReferenceTripleRecord(
                          environment,
                          << MeasurementMap(mkey, TaggedBytes(raw_bytes.value)) >>)
    IN IF is_none(self.triples.reference_triples)
       THEN Outcome([self EXCEPT !.triples.reference_triples = Some(<< new_record >>)],
                    Ok("()"))
       ELSE Outcome([self EXCEPT !.triples.reference_triples =
                         Some(Append(self.triples.reference_triples[1], new_record))],
                    Ok("()"))

add_reference_raw_value(self, environment, mkey, value) ==
    LET raw_bytes == into_writer(value) IN
    IF raw_bytes.tag = "Err" THEN Outcome(self, io_error(raw_bytes))
    ELSE
    LET raw_value == TaggedBytes(raw_bytes.value)
        measurement == MeasurementMap(mkey, raw_value)
        new_record == ReferenceTripleRecord(environment, << measurement >>)
    IN IF is_none(self.triples.reference_triples)
       THEN Outcome([self EXCEPT !.triples.reference_triples = Some(<< new_record >>)],
                    Ok("()"))
       ELSE LET vec == self.triples.reference_triples[1]
                record == find(vec, "ref_env", environment, 1)
            IN IF record # 0
               THEN Outcome([self EXCEPT !.triples.reference_triples =
                                 Some([vec EXCEPT ![record].ref_claims =
                                                      Append(@, measurement)])],
                            Ok("()"))
               ELSE Outcome([self EXCEPT !.triples.reference_triples =
                                 Some(Append(vec, new_record))],
                            Ok("()"))

\* An add_endorsement_raw_value that works on the reference triples.
add_endorsement_into_reference(self, environment, mkey, value) ==
    LET raw_bytes == into_writer(value) IN
    IF raw_bytes.tag = "Err" THEN Outcome(self, io_error(raw_bytes))
    ELSE
    LET measurement == MeasurementMap(mkey, TaggedBytes(raw_bytes.value))
        new_record == ReferenceTripleRecord(environment, << measurement >>)
        vec == triples_of(self.triples.reference_triples)
        record == find(vec, "ref_env", environment, 1)
    IN IF record # 0
       THEN Outcome([self EXCEPT !.triples.reference_triples =
                         Some([vec EXCEPT ![record].ref_claims = Append(@, measurement)])],
                    Ok("()"))
       ELSE Outcome([self EXCEPT !.triples.reference_triples = Some(Append(vec, new_record))],
                    Ok("()"))

\* An add_endorsement_raw_value that stores the triple before it serializes
\* the value, and returns the error with the triple left in place.
add_endorsement_storing_first(self, environment, mkey, value) ==
    LET raw_bytes == into_writer(value)
        stored == IF raw_bytes.tag = "Err" THEN << >> ELSE raw_bytes.value
        measurement == MeasurementMap(mkey, TaggedBytes(stored))
        new_record == EndorsedTripleRecord(environment, << measurement >>)
        vec == IF is_none(self.triples.endorsed_triples) THEN << >>
               ELSE self.triples.endorsed_triples[1]
        record == find(vec, "condition", environment, 1)
        after == IF record # 0
                 THEN [self EXCEPT !.triples.endorsed_triples =
                          Some([vec EXCEPT ![record].endorsement = Append(@, measurement)])]
                 ELSE [self EXCEPT !.triples.endorsed_triples = Some(Append(vec, new_record))]
    IN IF raw_bytes.tag = "Err" THEN Outcome(after, io_error(raw_bytes))
       ELSE Outcome(after, Ok("()"))

add_endorsement_raw_value(self, environment, mkey, value) ==
    LET raw_bytes == into_writer(value) IN
    IF raw_bytes.tag = "Err" THEN Outcome(self, io_error(raw_bytes))
    ELSE
    LET raw_value == TaggedBytes(raw_bytes.value)
        measurement == MeasurementMap(mkey, raw_value)
        new_record == EndorsedTripleRecord(environment, << measurement >>)
    IN IF is_none(self.triples.endorsed_triples)
       THEN Outcome([self EXCEPT !.triples.endorsed_triples = Some(<< new_record >>)],
                    Ok("()"))
       ELSE LET vec == self.triples.endorsed_triples[1]
                record == find(vec, "condition", environment, 1)
            IN IF record # 0
               THEN Outcome([self EXCEPT !.triples.endorsed_triples =
                                 Some([vec EXCEPT ![record].endorsement =
                                                      Append(@, measurement)])],
                            Ok("()"))
               ELSE Outcome([self EXCEPT !.triples.endorsed_triples =
                                 Some(Append(vec, new_record))],
                            Ok("()"))

\* The (mkey, value) pairs a call is given: two that serialize and one that
\* does not.
AddInputs ==
    { << "mkey-a", Integer(7) >>,
      << "mkey-b", Bytes(<< 0, 255 >>) >>,
      << "mkey-a", Unserializable >> }

\* A measurement a ConciseMidTag holds when it is constructed.
StoredMeasurement == MeasurementMap("mkey-0", TaggedBytes(<< 246 >>))

\* The triples of the ConciseMidTag values the calls are made on: none; one
\* reference triple; reference triples of two environments and an endorsed
\* triple; and, every field being pub, triples that repeat an environment.
StartTriples ==
    LET M == StoredMeasurement IN
    { TriplesMap_default,
      [TriplesMap_default EXCEPT
          !.reference_triples = Some(<< ReferenceTripleRecord(1, << M >>) >>),
          !.identity_triples = Some(1)],
      [TriplesMap_default EXCEPT
          !.reference_triples = Some(<< ReferenceTripleRecord(2, << M >>),
                                        ReferenceTripleRecord(1, << M, M >>) >>),
          !.endorsed_triples = Some(<< EndorsedTripleRecord(1, << M >>) >>)],
      [TriplesMap_default EXCEPT
          !.reference_triples = Some(<< ReferenceTripleRecord(1, << M >>),
                                        ReferenceTripleRecord(1, << M >>) >>),
          !.endorsed_triples = Some(<< EndorsedTripleRecord(2, << M >>),
                                       EndorsedTripleRecord(2, << M >>) >>)] }

ComidStarts ==
    { ConciseMidTag(None, t, Some(<< e >>), None, tr, None) :
        t \in { x \in TagIdentityValues : x.tag_version = Some(1) },
        e \in EntityValues,
        tr \in StartTriples }

\* ---------------------------------- ConciseMidTag: add_*_raw_value operations

\* ConciseMidTag { .. }: a struct literal.
Comid_new ==
    /\ comid = NoTag
    /\ \E x \in ComidStarts :
           /\ comid' = x
           /\ comid_start' = x
    /\ UNCHANGED << comid_wire, comid_log, comid_last, comid_calls,
                    builder_vars, construct_vars, tagged_vars, choice_vars, fixed_vars >>

\* One call of an add_*_raw_value method on the ConciseMidTag.
AddStep(op, environment, input, outcome) ==
    /\ comid # NoTag
    /\ comid_calls < MaxAddCalls
    /\ comid' = outcome.self
    /\ comid_last' = [ op |-> op, environment |-> environment, mkey |-> input[1],
                       value |-> input[2], result |-> outcome.result ]
    /\ comid_log' =
           IF outcome.result.tag = "Ok"
           THEN Append(comid_log,
                       [ op |-> op, environment |-> environment,
                         measurement |->
                             MeasurementMap(input[1],
                                            TaggedBytes(into_writer(input[2]).value)) ])
           ELSE comid_log
    /\ comid_calls' = comid_calls + 1
    /\ UNCHANGED << comid_wire, comid_start,
                    builder_vars, construct_vars, tagged_vars, choice_vars, fixed_vars >>

Add_reference_raw_value ==
    \E environment \in Envs, input \in AddInputs :
        AddStep("add_reference_raw_value", environment, input,
                add_reference_raw_value(comid, environment, input[1], input[2]))

Add_endorsement_raw_value ==
    \E environment \in Envs, input \in AddInputs :
        AddStep("add_endorsement_raw_value", environment, input,
                add_endorsement_raw_value(comid, environment, input[1], input[2]))

NextComid ==
    \/ Comid_new
    \/ Add_reference_raw_value
    \/ Add_endorsement_raw_value

SpecComid == Init /\ [][NextComid]_vars

\* ------------------------------------ ConciseMidTag: add_*_raw_value claims

\* A step that is one call of an add_*_raw_value method.
IsAddCall == comid # NoTag /\ comid_calls' = comid_calls + 1

\* The measurement a call builds from its mkey and value arguments.
measurement_of(call) ==
    MeasurementMap(call.mkey, TaggedBytes(into_writer(call.value).value))

\* The three cases of an update of a triples slot from `before` to `after` by a
\* call with the given environment and measurement m: no list, so the list
\* of the one record (environment, [m]); a record of the environment, so m
\* appended to its claims and as many records as before; no such record, so
\* the record (environment, [m]) appended and the other records as before.
OneOfThreeCases(before, after, field, claims, environment, new_record, m) ==
    LET hits == { i \in DOMAIN triples_of(before) : before[1][i][field] = environment } IN
    /\ is_none(before) => after = Some(<< new_record >>)
    /\ (~is_none(before) /\ hits # {}) =>
           /\ ~is_none(after)
           /\ Len(after[1]) = Len(before[1])
           /\ \E i \in hits : after[1] = [before[1] EXCEPT ![i][claims] = Append(@, m)]
    /\ (~is_none(before) /\ hits = {}) =>
           /\ ~is_none(after)
           /\ after[1] = Append(before[1], new_record)
           /\ \A i \in DOMAIN before[1] : after[1][i] = before[1][i]

\* C14: a successful add_reference_raw_value(env, mkey, value) updates the
\* reference triples by exactly one of three cases (no triples: the single
\* triple (env, [m]); a triple of env: m appended to its claims, the number
\* of triples unchanged; else the triple (env, [m]) appended, the others
\* unchanged), where m has mkey = Some(mkey) and as raw value the serialized
\* bytes of value; add_endorsement_raw_value does so on the endorsed triples.
AddUpdatesByOneOfThreeCases ==
    [][ (IsAddCall /\ comid_last'.result.tag = "Ok") =>
          LET c == comid_last'
              m == measurement_of(c)
          IN /\ m.mkey = Some(c.mkey)
             /\ m.mval.raw[1].raw_value = TaggedBytes(into_writer(c.value).value)
             /\ (c.op = "add_reference_raw_value") =>
                    OneOfThreeCases(comid.triples.reference_triples,
                                    comid'.triples.reference_triples,
                                    "ref_env", "ref_claims", c.environment,
                                    ReferenceTripleRecord(c.environment, << m >>), m)
             /\ (c.op = "add_endorsement_raw_value") =>
                    OneOfThreeCases(comid.triples.endorsed_triples,
                                    comid'.triples.endorsed_triples,
                                    "condition", "endorsement", c.environment,
                                    EndorsedTripleRecord(c.environment, << m >>), m) ]_vars

\* C14 witness: three calls on a ConciseMidTag without reference triples
\* went through the three cases: the first made the list, one appended a
\* triple for another environment, one appended to the first triple.
ReferenceWentThroughThreeCases ==
    /\ comid # NoTag
    /\ is_none(comid_start.triples.reference_triples)
    /\ comid_last.op = "add_reference_raw_value"
    /\ comid_last.result.tag = "Ok"
    /\ Len(triples_of(comid.triples.reference_triples)) = 2
    /\ Len(comid.triples.reference_triples[1][1].ref_claims) = 2

\* C15: an add_*_raw_value call returns Ok(()) when the value serializes and
\* an error when it does not, and a call that returns an error leaves the
\* ConciseMidTag exactly as it was.
AddErrorLeavesTagUnchanged ==
    [][ IsAddCall =>
          /\ (into_writer(comid_last'.value).tag = "Ok") => (comid_last'.result = Ok("()"))
          /\ (into_writer(comid_last'.value).tag = "Err") => (comid_last'.result.tag = "Err")
          /\ (comid_last'.result.tag = "Err") => (comid' = comid) ]_vars

\* C15 witness: add_endorsement_raw_value failed on a ConciseMidTag that
\* earlier calls had added endorsed triples to.
EndorsementFailedAfterAdds ==
    /\ comid # NoTag
    /\ comid_last.op = "add_endorsement_raw_value"
    /\ comid_last.result.tag = "Err"
    /\ is_none(comid_start.triples.endorsed_triples)
    /\ ~is_none(comid.triples.endorsed_triples)

\* The reference and the endorsed triples of a ConciseMidTag, as lists.
reference_list(x) == triples_of(x.triples.reference_triples)

endorsed_list(x) == triples_of(x.triples.endorsed_triples)

\* An Option<NonEmptyVec<..>> slot is None or holds at least one record, and
\* every record holds at least one measurement.
NonEmpty(o, claims) ==
    /\ is_none(o) \/ Len(o[1]) >= 1
    /\ \A i \in DOMAIN triples_of(o) : Len(o[1][i][claims]) >= 1

\* From `before` to `after` the list of records did not get shorter, and
\* neither did the measurements of any record.
NotShortened(before, after, claims) ==
    /\ Len(after) >= Len(before)
    /\ \A i \in DOMAIN before : Len(after[i][claims]) >= Len(before[i][claims])

\* C16: after any sequence of add_reference_raw_value and
\* add_endorsement_raw_value calls, reference_triples and endorsed_triples
\* are each None or a list of at least one triple, every triple has at least
\* one measurement, and no call shortens any of these lists.
NonEmptySurvivesAdds ==
    /\ [](comid # NoTag =>
            /\ NonEmpty(comid.triples.reference_triples, "ref_claims")
            /\ NonEmpty(comid.triples.endorsed_triples, "endorsement"))
    /\ [][ IsAddCall =>
             /\ NotShortened(reference_list(comid), reference_list(comid'), "ref_claims")
             /\ NotShortened(endorsed_list(comid), endorsed_list(comid'), "endorsement") ]_vars

\* C16 witness: calls on a ConciseMidTag without triples made both lists,
\* and a reference triple was added to twice.
BothListsMadeAndGrown ==
    /\ comid # NoTag
    /\ is_none(comid_start.triples.reference_triples)
    /\ is_none(comid_start.triples.endorsed_triples)
    /\ Len(endorsed_list(comid)) = 1
    /\ Len(reference_list(comid)) = 1
    /\ Len(reference_list(comid)[1].ref_claims) = 2

\* No two records of the list have equal environments.
DistinctEnvironments(list, field) ==
    \A i, j \in DOMAIN list : list[i][field] = list[j][field] => i = j

\* The number of measurements over all records of the list.
RECURSIVE TotalMeasurements(_, _)
TotalMeasurements(list, claims) ==
    IF list = << >> THEN 0
    ELSE Len(Head(list)[claims]) + TotalMeasurements(Tail(list), claims)

\* The successful calls of one operation, in order.
successful(op) == SelectSeq(comid_log, LAMBDA c : c.op = op)

\* C17: on a ConciseMidTag constructed with reference triples absent or of
\* pairwise distinct environments, after any sequence of calls no two
\* reference triples have equal environments and the reference triples hold
\* as many measurements more as add_reference_raw_value calls succeeded; the
\* same for add_endorsement_raw_value and the endorsed triples.
AddsKeepEnvironmentsDistinct ==
    comid # NoTag =>
        /\ DistinctEnvironments(reference_list(comid_start), "ref_env") =>
               /\ DistinctEnvironments(reference_list(comid), "ref_env")
               /\ TotalMeasurements(reference_list(comid), "ref_claims") =
                      TotalMeasurements(reference_list(comid_start), "ref_claims")
                      + Len(successful("add_reference_raw_value"))
        /\ DistinctEnvironments(endorsed_list(comid_start), "condition") =>
               /\ DistinctEnvironments(endorsed_list(comid), "condition")
               /\ TotalMeasurements(endorsed_list(comid), "endorsement") =
                      TotalMeasurements(endorsed_list(comid_start), "endorsement")
                      + Len(successful("add_endorsement_raw_value"))

\* C17 witness: on a ConciseMidTag constructed with reference triples of two
\* environments, two add_reference_raw_value calls succeeded and one call
\* failed.
TwoAddedToDistinctStart ==
    /\ comid # NoTag
    /\ Len(reference_list(comid_start)) = 2
    /\ DistinctEnvironments(reference_list(comid_start), "ref_env")
    /\ Len(successful("add_reference_raw_value")) = 2
    /\ comid_calls = 3

\* With slot `f` of the TriplesMap put back to what it was, the
\* ConciseMidTag is what it was.
OnlySlotChanged(before, after, f) ==
    [after EXCEPT !.triples[f] = before.triples[f]] = before

\* A call c took the ConciseMidTag from `before` to `after`. Whatever call
\* of the other operation is made next, making that call first and c second
\* leaves the same ConciseMidTag and returns the same results.
Commute(before, after, c) ==
    \A e \in Envs, b \in AddInputs :
        IF c.op = "add_reference_raw_value"
        THEN LET first == add_endorsement_raw_value(before, e, b[1], b[2])
                 second == add_reference_raw_value(first.self, c.environment, c.mkey, c.value)
                 next == add_endorsement_raw_value(after, e, b[1], b[2])
             IN /\ second.self = next.self
                /\ second.result = c.result
                /\ first.result = next.result
        ELSE LET first == add_reference_raw_value(before, e, b[1], b[2])
                 second == add_endorsement_raw_value(first.self, c.environment, c.mkey, c.value)
                 next == add_reference_raw_value(after, e, b[1], b[2])
             IN /\ second.self = next.self
                /\ second.result = c.result
                /\ first.result = next.result

\* C18: add_reference_raw_value changes nothing but triples.reference_triples
\* and add_endorsement_raw_value nothing but triples.endorsed_triples
\* (language, tag_identity, entities, linked_tags, extension and the other
\* slots of the TriplesMap stay), so the two operations commute.
AddsChangeOnlyTheirSlot ==
    [][ IsAddCall =>
          /\ (comid_last'.op = "add_reference_raw_value") =>
                 OnlySlotChanged(comid, comid', "reference_triples")
          /\ (comid_last'.op = "add_endorsement_raw_value") =>
                 OnlySlotChanged(comid, comid', "endorsed_triples")
          /\ Commute(comid, comid', comid_last') ]_vars

\* C18 witness: both operations succeeded on a ConciseMidTag constructed
\* with identity triples, the endorsement last.
BothOperationsCalled ==
    /\ comid # NoTag
    /\ comid_start.triples.identity_triples = Some(1)
    /\ Len(successful("add_reference_raw_value")) >= 1
    /\ comid_last.op = "add_endorsement_raw_value"
    /\ comid_last.result.tag = "Ok"
    /\ comid.triples.endorsed_triples # comid_start.triples.endorsed_triples

\* The environments of the list that are not in `seen`, each once, in the
\* order of their first occurrence.
RECURSIVE first_added(_, _)
first_added(list, seen) ==
    IF list = << >> THEN << >>
    ELSE IF Head(list).environment \in seen THEN first_added(Tail(list), seen)
    ELSE << Head(list).environment >>
         \o first_added(Tail(list), seen \cup { Head(list).environment })

\* The measurements of the calls of the list made with the environment, in
\* the order of the calls.
added_to(list, environment) ==
    LET calls == SelectSeq(list, LAMBDA c : c.environment = environment)
    IN [i \in DOMAIN calls |-> calls[i].measurement]

\* C19: the reference triples are in the order in which their environments
\* were first added; the measurements of a triple are in the order of the
\* calls that added them; and a call changes no stored triple or measurement
\* other than by appending to the first triple whose environment is the
\* argument.
AddReferencePreservesOrder ==
    /\ [](comid # NoTag =>
            LET start == reference_list(comid_start)
                now == reference_list(comid)
                calls == successful("add_reference_raw_value")
                start_envs == [i \in DOMAIN start |-> start[i].ref_env]
                envs == start_envs
                        \o first_added(calls, { start_envs[i] : i \in DOMAIN start_envs })
            IN /\ Len(now) = Len(envs)
               /\ \A i \in DOMAIN now :
                      /\ now[i].ref_env = envs[i]
                      /\ now[i].ref_claims =
                             (IF i <= Len(start) THEN start[i].ref_claims ELSE << >>)
                             \o (IF \A j \in 1..(i - 1) : envs[j] # envs[i]
                                 THEN added_to(calls, envs[i]) ELSE << >>))
    /\ [][ (IsAddCall /\ comid_last'.op = "add_reference_raw_value") =>
             LET before == reference_list(comid)
                 after == reference_list(comid')
                 first == find(before, "ref_env", comid_last'.environment, 1)
             IN /\ Len(after) >= Len(before)
                /\ \A i \in DOMAIN before :
                       /\ i # first => after[i] = before[i]
                       /\ after[i].ref_env = before[i].ref_env
                       /\ SubSeq(after[i].ref_claims, 1, Len(before[i].ref_claims)) =
                              before[i].ref_claims ]_vars

\* C19 witness: on a ConciseMidTag constructed with two reference triples of
\* the same environment, a call with that environment appended to the first
\* of the two, after a call had appended a triple of another environment.
AppendedToFirstOfEqualEnvironments ==
    /\ comid # NoTag
    /\ Len(reference_list(comid_start)) = 2
    /\ ~DistinctEnvironments(reference_list(comid_start), "ref_env")
    /\ Len(reference_list(comid)) = 3
    /\ Len(reference_list(comid)[1].ref_claims) = 2
    /\ reference_list(comid)[2] = reference_list(comid_start)[2]
    /\ comid_last.op = "add_reference_raw_value"
    /\ comid_last.environment = reference_list(comid)[1].ref_env

\* ------------------------------------------ builder: the setters, revisited

\* C20: a setter writes the value it is given into its own slot and leaves
\* the other nine as they were; a slot that is set is never unset; setting a
\* slot again replaces its value; hence what build() returns depends only on
\* the value last given to each slot, whatever the order of the setter calls.
SettersWriteOnlyTheirSlot ==
    /\ [][ (setter_calls' = setter_calls + 1) =>
             /\ last_op' \in Slots
             /\ builder'[last_op'] = last_passed'[last_op']
             /\ ~is_none(builder'[last_op'])
             /\ \A f \in Slots \ { last_op' } : builder'[f] = builder[f]
             /\ \A f \in Slots : ~is_none(builder[f]) => ~is_none(builder'[f]) ]_vars
    /\ [](\A f \in Slots : builder[f] = last_passed[f])
    /\ [](builder_state = "Built" =>
            IF \A f \in Slots : is_none(last_passed[f])
            THEN build_result = Err("EmptyTriplesMap")
            ELSE /\ build_result.tag = "Ok"
                 /\ \A f \in Slots : build_result.value[f] = last_passed[f])

\* C20 witness: build() was taken after three setter calls on two slots, so
\* one of the two was set twice.
BuiltAfterSettingASlotTwice ==
    /\ builder_state = "Built"
    /\ build_result.tag = "Ok"
    /\ setter_calls = 3
    /\ Cardinality({ f \in Slots : ~is_none(last_passed[f]) }) = 2
    /\ last_passed["identity_triples"] = Some(2)

====
